---- MODULE Spec2Model ----
(***************************************************************************)
(* Model of pydantic/fields.py: the field-descriptor resolution engine.    *)
(*                                                                         *)
(* Python values are written as strings ("None", "True", "0", "d1", ...).  *)
(* FieldInfo objects live in a heap `objs`; a FieldInfo's `metadata`       *)
(* attribute is a reference to a list object in `lists`, because           *)
(* copy(field_info) is a shallow copy and `metadata += [...]` extends the  *)
(* list object in place.                                                   *)
(***************************************************************************)
EXTENDS Integers, Sequences, FiniteSets, TLC

VARIABLES
    objs,     \* heap of FieldInfo objects, in creation order (index = identity)
    lists,    \* heap of metadata list objects; lists[i] is the list made by objs[i]'s __init__
    res       \* the last call: its name, arguments, outcome and return value

vars == <<objs, lists, res>>

(***************************************************************************)
(* Bounds of the model.                                                    *)
(***************************************************************************)
MaxObjs == 3      \* FieldInfo objects alive at once
MaxMeta == 4      \* length of a metadata list

(***************************************************************************)
(* Python values.                                                          *)
(***************************************************************************)
NoneV == "None"
Undefined == "Undefined"
EllipsisV == "Ellipsis"
MISSING == "MISSING"
TrueV == "True"
FalseV == "False"

\* bool(v) is False
Falsy(v) == v \in {"None", "False", "0", "", "[]", "()", "{}"}

PyBool(b) == IF b THEN TrueV ELSE FalseV

\* outcomes of a call
OK == "ok"
ErrBoth == "TypeError: cannot specify both default and default_factory"
ErrFieldTwice == "TypeError: Field may not be used twice on the same field"
ErrDefaultTwice == "TypeError: Default may not be specified twice on the same field"
ErrAnnotationKw == "TypeError: annotation is not permitted as a Field keyword argument"
ErrValidationAlias == "TypeError: Invalid validation_alias type"
ErrConst == "PydanticUserError: const is removed"
ErrUniqueItems == "PydanticUserError: unique_items is removed"
ErrRegex == "PydanticUserError: regex is removed"
ErrReturnType == "PydanticUserError: Computed field is missing return type annotation"
ErrGetArgs == "TypeError: can only concatenate tuple (not list) to tuple"

(***************************************************************************)
(* Annotations.  An annotation is a record                                 *)
(*   w    : "" | "Final" | "InitVar"   a wrapper Final[...] / InitVar[...] *)
(*   anno : BOOLEAN                    an Annotated[first, *ex] form       *)
(*   ifin : BOOLEAN                    first is itself Final[t]            *)
(*   t    : the type name; "None" is None, "Final" the bare Final form,    *)
(*          "InitVar" the bare dataclasses.InitVar, "Any" typing.Any       *)
(*   ex   : the extra arguments of Annotated, constraint tokens and        *)
(*          references to FieldInfo objects                                *)
(*   tup  : BOOLEAN                    __metadata__ is a tuple, as in      *)
(*          every Annotated[...] that is written; rebuild_annotation       *)
(*          makes an alias whose __metadata__ is the metadata list         *)
(***************************************************************************)
Plain(t) == [w |-> "", anno |-> FALSE, ifin |-> FALSE, t |-> t, ex |-> <<>>, tup |-> TRUE]
NoAnnotation == Plain("None")
FinalForm == Plain("Final")
InitVarForm == Plain("InitVar")
AnyForm == Plain("Any")
FinalOf(a) == [a EXCEPT !.w = "Final"]
Annotated(t, ex) ==
    [w |-> "", anno |-> TRUE, ifin |-> FALSE, t |-> t, ex |-> ex, tup |-> TRUE]
AnnotatedFinal(t, ex) ==
    [w |-> "", anno |-> TRUE, ifin |-> TRUE, t |-> t, ex |-> ex, tup |-> TRUE]

\* an element of Annotated's extras, or of a metadata list
Token(k, kv) == [k |-> k, kv |-> kv, id |-> 0]
FieldInfoRef(id) == [k |-> "FieldInfo", kv |-> <<>>, id |-> id]
IsFieldInfo(a) == a.k = "FieldInfo"

\* _typing_extra.is_finalvar
is_finalvar(a) == a.w = "Final" \/ a = FinalForm

\* _typing_extra.is_annotated
is_annotated(a) == a.w = "" /\ a.anno

\* typing_extensions.get_args(annotation)[0] of a wrapper Final[X] / InitVar[X]
Unwrap(a) == [a EXCEPT !.w = ""]

\* first_arg of typing_extensions.get_args(Annotated[first, *extra])
FirstArg(a) == [w |-> IF a.ifin THEN "Final" ELSE "", anno |-> FALSE, ifin |-> FALSE,
                t |-> a.t, ex |-> <<>>, tup |-> TRUE]

\* typing_extensions.get_args(annotation) of an Annotated form is
\* (annotation.__origin__,) + annotation.__metadata__: it raises when
\* __metadata__ is a list
GetArgsRaises(a) == a.anno /\ ~a.tup

\* isinstance(annotation, dataclasses.InitVar)
IsInitVarInstance(a) == a.w = "InitVar"

(***************************************************************************)
(* FieldInfo.metadata_lookup and FieldInfo._collect_metadata.              *)
(* kwargs is the dict in insertion order: a sequence of <<key, value>>.    *)
(***************************************************************************)
DedicatedKeys == {"strict", "gt", "ge", "lt", "le", "multiple_of", "min_length", "max_length"}
BucketKeys == {"pattern", "allow_inf_nan", "max_digits", "decimal_places"}

\* the marker of a key of the table; "None" for the bucketed keys
metadata_lookup(key) ==
    CASE key = "strict" -> "Strict"
      [] key = "gt" -> "Gt"
      [] key = "ge" -> "Ge"
      [] key = "lt" -> "Lt"
      [] key = "le" -> "Le"
      [] key = "multiple_of" -> "MultipleOf"
      [] key = "min_length" -> "MinLen"
      [] key = "max_length" -> "MaxLen"
      [] key \in BucketKeys -> NoneV

PydanticGeneralMetadata(general) == Token("PydanticGeneralMetadata", general)

RECURSIVE CollectLoop(_, _, _, _)
CollectLoop(items, metadata, general, rest) ==
    IF items = <<>>
    THEN [md |-> IF general # <<>>
                 THEN Append(metadata, PydanticGeneralMetadata(general))
                 ELSE metadata,
          rest |-> rest]
    ELSE LET key == Head(items)[1]
             value == Head(items)[2]
         IN IF key \notin DedicatedKeys \cup BucketKeys
            THEN CollectLoop(Tail(items), metadata, general, Append(rest, Head(items)))
            ELSE IF value = NoneV
            THEN CollectLoop(Tail(items), metadata, general, rest)
            ELSE IF metadata_lookup(key) = NoneV
            THEN CollectLoop(Tail(items), metadata, Append(general, Head(items)), rest)
            ELSE CollectLoop(Tail(items),
                             Append(metadata, Token(metadata_lookup(key), <<Head(items)>>)),
                             general, rest)

\* _collect_metadata that never appends the shared PydanticGeneralMetadata
C12_NoBucket(kwargs) ==
    CollectLoop(SelectSeq(kwargs, LAMBDA kv : kv[1] \notin BucketKeys), <<>>, <<>>, <<>>)

\* returns [md |-> the tokens, rest |-> what is left of kwargs]
_collect_metadata(kwargs) == CollectLoop(kwargs, <<>>, <<>>, <<>>)

(***************************************************************************)
(* FieldInfo._find_field_info_arg and FieldInfo._extract_metadata.         *)
(***************************************************************************)
RECURSIVE _find_field_info_arg(_)
\* the id of the first FieldInfo among args, 0 for None
_find_field_info_arg(args) ==
    IF args = <<>> THEN 0
    ELSE IF IsFieldInfo(Head(args)) THEN Head(args).id
    ELSE _find_field_info_arg(Tail(args))

\* [out, annotation, md]
_extract_metadata(annotation) ==
    IF annotation # NoAnnotation /\ is_annotated(annotation)
    THEN IF GetArgsRaises(annotation)
         THEN [out |-> ErrGetArgs, annotation |-> annotation, md |-> <<>>]
         ELSE IF _find_field_info_arg(annotation.ex) # 0
         THEN [out |-> ErrFieldTwice, annotation |-> annotation, md |-> <<>>]
         ELSE [out |-> OK, annotation |-> FirstArg(annotation), md |-> annotation.ex]
    ELSE [out |-> OK, annotation |-> annotation, md |-> <<>>]

\* [a for a in extra_args if not isinstance(a, FieldInfo)]
NonFieldInfo(extra_args) == SelectSeq(extra_args, LAMBDA a : ~IsFieldInfo(a))

(***************************************************************************)
(* Metadata list entries: the token, and whether FieldInfo.__init__ put it *)
(* there from a keyword (kw) or it came out of an annotation.              *)
(***************************************************************************)
KeywordEntries(md) == [i \in DOMAIN md |-> [tok |-> md[i], kw |-> TRUE]]
AnnotationEntries(md) == [i \in DOMAIN md |-> [tok |-> md[i], kw |-> FALSE]]
Tokens(entries) == [i \in DOMAIN entries |-> entries[i].tok]

\* the two parts of self.metadata the other way round
C5_AnnotationFirst(keyword_md, annotation_metadata) ==
    AnnotationEntries(annotation_metadata) \o KeywordEntries(keyword_md)

\* self.metadata = self._collect_metadata(kwargs) + annotation_metadata
InitMetadata(keyword_md, annotation_metadata) ==
    KeywordEntries(keyword_md) \o AnnotationEntries(annotation_metadata)

(***************************************************************************)
(* Dicts (extra, json_schema_extra) are sequences of <<key, value>>.       *)
(***************************************************************************)
RECURSIVE DictGet(_, _)
\* d.get(key, None)
DictGet(d, key) ==
    IF d = <<>> THEN NoneV
    ELSE IF Head(d)[1] = key THEN Head(d)[2]
    ELSE DictGet(Tail(d), key)

\* an Optional[dict]: None, or a dict
JNone == [none |-> TRUE, items |-> <<>>]
JDict(items) == [none |-> FALSE, items |-> items]
JFalsy(j) == j.none \/ j.items = <<>>

(***************************************************************************)
(* Alias values: plain strings, and AliasPath / AliasChoices objects.      *)
(***************************************************************************)
StrValues == {"", "a", "s", "v"}
AliasPathValues == {"AliasPath('b', 0)"}
AliasChoicesValues == {"AliasChoices('a', AliasPath('b', 0))"}
IsStr(v) == v \in StrValues
IsAliasPath(v) == v \in AliasPathValues
IsAliasChoices(v) == v \in AliasChoicesValues

(***************************************************************************)
(* The AliasPath and AliasChoices classes.  `given` is the sequence of the *)
(* positional arguments of the call; a name is Str(v), a segment a string. *)
(* The constructors return [out, obj].                                     *)
(***************************************************************************)
ErrMissingArgument == "TypeError: __init__() missing 1 required positional argument"

Str(v) == [cls |-> "str", v |-> v, path |-> <<>>]

\* AliasPath(first_arg, *args)
AliasPath_init(given) ==
    IF given = <<>> THEN [out |-> ErrMissingArgument, obj |-> NoneV]
    ELSE LET first_arg == Head(given)
             args == Tail(given)
         IN [out |-> OK, obj |-> [cls |-> "AliasPath", v |-> "", path |-> <<first_arg>> \o args]]

\* AliasPath.convert_to_aliases
AliasPath_convert_to_aliases(self) == self.path

\* AliasChoices(first_choice, *choices)
AliasChoices_init(given) ==
    IF given = <<>> THEN [out |-> ErrMissingArgument, obj |-> NoneV]
    ELSE LET first_choice == Head(given)
             choices == Tail(given)
         IN [out |-> OK, obj |-> [cls |-> "AliasChoices", choices |-> <<first_choice>> \o choices]]

\* convert_to_aliases that leaves the plain names out
C16_PathsOnly(self) ==
    LET paths == SelectSeq(self.choices, LAMBDA c : c.cls = "AliasPath")
    IN [i \in DOMAIN paths |-> AliasPath_convert_to_aliases(paths[i])]

\* AliasChoices.convert_to_aliases
AliasChoices_convert_to_aliases(self) ==
    [i \in DOMAIN self.choices |->
        IF self.choices[i].cls = "AliasPath"
        THEN AliasPath_convert_to_aliases(self.choices[i])
        ELSE <<self.choices[i].v>>]

(***************************************************************************)
(* FieldInfo.__init__ with kwargs: a record of the named keys              *)
(* (an absent key holds the default of its kwargs.pop) and `rest`, the     *)
(* other keys in insertion order.  Returns [out, obj, md]: the outcome,    *)
(* the new object's attributes and the content of its new metadata list.   *)
(***************************************************************************)
NoObj == [annotation |-> NoAnnotation, default |-> Undefined, default_factory |-> NoneV,
          alias |-> NoneV, alias_priority |-> NoneV, validation_alias |-> NoneV,
          serialization_alias |-> NoneV, json_schema_extra |-> JNone, frozen |-> NoneV,
          final |-> NoneV, repr |-> TrueV, init_var |-> NoneV, kw_only |-> NoneV,
          metadata |-> 0]

Raise(err) == [out |-> err, obj |-> NoObj, md |-> <<>>, warnings |-> <<>>]

\* self.default of FieldInfo.__init__
InitDefault(default) == IF default = EllipsisV THEN Undefined ELSE default

\* self.alias_priority of FieldInfo.__init__
InitAliasPriority(alias, alias_priority) ==
    IF alias # NoneV
    THEN (IF Falsy(alias_priority) THEN "2" ELSE alias_priority)
    ELSE NoneV

FieldInfo_init(kwargs) ==
    LET em == _extract_metadata(kwargs.annotation)
        default == InitDefault(kwargs.default)
    IN IF em.out # OK THEN Raise(em.out)
       ELSE IF default # Undefined /\ kwargs.default_factory # NoneV THEN Raise(ErrBoth)
       ELSE [out |-> OK,
             obj |-> [annotation |-> em.annotation,
                      default |-> default,
                      default_factory |-> kwargs.default_factory,
                      alias |-> kwargs.alias,
                      alias_priority |-> InitAliasPriority(kwargs.alias, kwargs.alias_priority),
                      validation_alias |-> kwargs.validation_alias,
                      serialization_alias |-> kwargs.serialization_alias,
                      json_schema_extra |-> kwargs.json_schema_extra,
                      frozen |-> kwargs.frozen,
                      final |-> kwargs.final,
                      repr |-> kwargs.repr,
                      init_var |-> kwargs.init_var,
                      kw_only |-> kwargs.kw_only,
                      metadata |-> 0],
             md |-> InitMetadata(_collect_metadata(kwargs.rest).md, em.md),
             warnings |-> <<>>]

\* the kwargs of a call that passes no key
NoKwargs == [has_annotation |-> FALSE, annotation |-> NoAnnotation, default |-> Undefined,
             default_factory |-> NoneV, alias |-> NoneV, alias_priority |-> NoneV,
             validation_alias |-> NoneV, serialization_alias |-> NoneV,
             json_schema_extra |-> JNone, frozen |-> NoneV, final |-> NoneV, repr |-> TrueV,
             init_var |-> NoneV, kw_only |-> NoneV, rest |-> <<>>]

\* FieldInfo.from_field
from_field(default, kwargs) ==
    IF kwargs.has_annotation THEN Raise(ErrAnnotationKw)
    ELSE FieldInfo_init([kwargs EXCEPT !.default = default])

(***************************************************************************)
(* Field(default, *, ..., extra).  `a` is a record of the arguments (an    *)
(* argument not given holds its default) and `extra`, the other keywords.  *)
(***************************************************************************)
WarnMinItems == "DeprecationWarning: min_items"
WarnMaxItems == "DeprecationWarning: max_items"
WarnAllowMutation == "DeprecationWarning: allow_mutation"
WarnExtra == "DeprecationWarning: Extra keyword arguments on Field"

\* the arguments of Field() with no argument given
FieldDefaults ==
    [default |-> Undefined, default_factory |-> NoneV, alias |-> NoneV,
     alias_priority |-> NoneV, validation_alias |-> NoneV, serialization_alias |-> NoneV,
     json_schema_extra |-> JNone, frozen |-> NoneV, final |-> NoneV, repr |-> TrueV,
     init_var |-> NoneV, kw_only |-> NoneV, pattern |-> NoneV, strict |-> NoneV,
     gt |-> NoneV, ge |-> NoneV, lt |-> NoneV, le |-> NoneV, multiple_of |-> NoneV,
     allow_inf_nan |-> NoneV, max_digits |-> NoneV, decimal_places |-> NoneV,
     min_length |-> NoneV, max_length |-> NoneV, extra |-> <<>>]

\* the removed options, first to be checked first
FieldRemoved(extra) ==
    IF DictGet(extra, "const") # NoneV THEN ErrConst
    ELSE IF DictGet(extra, "unique_items") # NoneV THEN ErrUniqueItems
    ELSE IF DictGet(extra, "regex") # NoneV THEN ErrRegex
    ELSE OK

\* extra after the six pops
FieldResidual(extra) ==
    SelectSeq(extra, LAMBDA kv : kv[1] \notin {"const", "min_items", "max_items",
                                              "unique_items", "allow_mutation", "regex"})

\* the warnings raised before the pop that raises `until` ("" when none raises)
FieldWarnings(extra, until) ==
    (IF DictGet(extra, "min_items") # NoneV /\ until # ErrConst
     THEN <<WarnMinItems>> ELSE <<>>)
    \o (IF DictGet(extra, "max_items") # NoneV /\ until # ErrConst
        THEN <<WarnMaxItems>> ELSE <<>>)
    \o (IF DictGet(extra, "allow_mutation") # NoneV /\ until \notin {ErrConst, ErrUniqueItems}
        THEN <<WarnAllowMutation>> ELSE <<>>)
    \o (IF FieldResidual(extra) # <<>> /\ until \notin {ErrConst, ErrUniqueItems, ErrRegex}
        THEN <<WarnExtra>> ELSE <<>>)

\* the translation with the legacy option winning over the new one
C13_LegacyWins(new, legacy) == IF legacy # NoneV THEN legacy ELSE new

\* min_length / max_length after the translation of min_items / max_items
FieldLength(new, legacy) == IF legacy # NoneV /\ new = NoneV THEN legacy ELSE new

\* frozen after the translation of allow_mutation
FieldFrozen(frozen, allow_mutation) == IF allow_mutation = FalseV THEN TrueV ELSE frozen

\* json_schema_extra after the residual keywords are folded in
FieldJsonSchemaExtra(json_schema_extra, residual) ==
    IF residual # <<>> /\ JFalsy(json_schema_extra) THEN JDict(residual) ELSE json_schema_extra

\* whether Field raises on validation_alias
FieldValidationAliasRaises(validation_alias) ==
    ~Falsy(validation_alias)
    /\ ~(IsStr(validation_alias) \/ IsAliasChoices(validation_alias) \/ IsAliasPath(validation_alias))

\* serialization_alias forwarded as given
C8_NoBackfill(serialization_alias, alias) == serialization_alias

\* serialization_alias as forwarded
FieldSerializationAlias(serialization_alias, alias) ==
    IF serialization_alias = NoneV /\ IsStr(alias) THEN alias ELSE serialization_alias

\* validation_alias as forwarded: validation_alias or alias
FieldValidationAlias(validation_alias, alias) ==
    IF Falsy(validation_alias) THEN alias ELSE validation_alias

\* the constraint keywords in the order Field passes them to from_field
FieldConstraints(a, min_length, max_length) ==
    << <<"pattern", a.pattern>>, <<"strict", a.strict>>, <<"gt", a.gt>>, <<"ge", a.ge>>,
       <<"lt", a.lt>>, <<"le", a.le>>, <<"multiple_of", a.multiple_of>>,
       <<"min_length", min_length>>, <<"max_length", max_length>>,
       <<"allow_inf_nan", a.allow_inf_nan>>, <<"max_digits", a.max_digits>>,
       <<"decimal_places", a.decimal_places>> >>

\* [out, obj, md, warnings]
Field(a) ==
    LET removed == FieldRemoved(a.extra)
        residual == FieldResidual(a.extra)
        min_length == FieldLength(a.min_length, DictGet(a.extra, "min_items"))
        max_length == FieldLength(a.max_length, DictGet(a.extra, "max_items"))
        r == from_field(a.default,
                 [has_annotation |-> FALSE,
                  annotation |-> NoAnnotation,
                  default |-> Undefined,
                  default_factory |-> a.default_factory,
                  alias |-> a.alias,
                  alias_priority |-> a.alias_priority,
                  validation_alias |-> FieldValidationAlias(a.validation_alias, a.alias),
                  serialization_alias |-> FieldSerializationAlias(a.serialization_alias, a.alias),
                  json_schema_extra |-> FieldJsonSchemaExtra(a.json_schema_extra, residual),
                  frozen |-> FieldFrozen(a.frozen, DictGet(a.extra, "allow_mutation")),
                  final |-> a.final,
                  repr |-> a.repr,
                  init_var |-> a.init_var,
                  kw_only |-> a.kw_only,
                  rest |-> FieldConstraints(a, min_length, max_length)])
    IN IF removed # OK
       THEN [Raise(removed) EXCEPT !.warnings = FieldWarnings(a.extra, removed)]
       ELSE IF FieldValidationAliasRaises(a.validation_alias)
       THEN [Raise(ErrValidationAlias) EXCEPT !.warnings = FieldWarnings(a.extra, "")]
       ELSE [r EXCEPT !.warnings = FieldWarnings(a.extra, "")]

(***************************************************************************)
(* FieldInfo queries.                                                      *)
(***************************************************************************)
\* is_required without its test of default_factory
C3_RequiredIgnoringFactory(self) == self.default = Undefined

is_required(self) == self.default = Undefined /\ self.default_factory = NoneV

\* typing_extensions._AnnotatedAlias(annotation, metadata)
AnnotatedAlias(annotation, metadata) ==
    [w |-> "", anno |-> TRUE, ifin |-> annotation.w = "Final", t |-> annotation.t,
     ex |-> metadata, tup |-> FALSE]

\* self.rebuild_annotation(), with the content of self.metadata
rebuild_annotation(self, metadata) ==
    IF metadata = <<>> THEN self.annotation ELSE AnnotatedAlias(self.annotation, metadata)

\* the value a default factory returns
Call(default_factory) == IF default_factory = "f1" THEN "f1()" ELSE "f2()"

\* the default values that are mutable containers
Mutable(v) == v \in {"[1]"}

\* _utils.smart_deepcopy(obj): [val, new], an object equal to obj, which is
\* obj itself when obj is immutable and a new object otherwise
smart_deepcopy(obj) == [val |-> obj, new |-> Mutable(obj)]

\* get_default that calls the factory whether or not the caller asks for it
C14_AlwaysCall(self, call_default_factory) ==
    IF self.default_factory = NoneV
    THEN [val |-> self.default, new |-> Mutable(self.default), calls |-> 0]
    ELSE [val |-> Call(self.default_factory), new |-> TRUE, calls |-> 1]

\* self.get_default(call_default_factory=...): [val, new, calls], the value
\* returned, whether it is an object made by the call, and how many times the
\* call invoked self.default_factory
get_default(self, call_default_factory) ==
    IF self.default_factory = NoneV
    THEN [val |-> smart_deepcopy(self.default).val,
          new |-> smart_deepcopy(self.default).new,
          calls |-> 0]
    ELSE IF call_default_factory
    THEN [val |-> Call(self.default_factory), new |-> TRUE, calls |-> 1]
    ELSE [val |-> NoneV, new |-> FALSE, calls |-> 0]

(***************************************************************************)
(* The heap, and the constructors that read or change it.  Each returns    *)
(* [out, objs, lists, ret, warnings]: the outcome, the heap after the      *)
(* call and the identity of the FieldInfo returned (0 when it raised).     *)
(***************************************************************************)
Raised(H, err, warnings) ==
    [out |-> err, objs |-> H.objs, lists |-> H.lists, ret |-> 0, warnings |-> warnings]

\* a new FieldInfo built by __init__: r is what FieldInfo_init returned
New(H, r) ==
    IF r.out # OK THEN Raised(H, r.out, r.warnings)
    ELSE [out |-> OK,
          objs |-> Append(H.objs, [r.obj EXCEPT !.metadata = Len(H.objs) + 1]),
          lists |-> Append(H.lists, r.md),
          ret |-> Len(H.objs) + 1,
          warnings |-> r.warnings]

\* new_field_info = copy(field_info): the attributes of the copy, which
\* shares field_info's metadata list
copy(field_info) == field_info

\* the tokens put in front of the list
C20_Prepend(metadata, extra) == AnnotationEntries(extra) \o metadata

\* new_field_info.metadata += extra: the content of the list it refers to
ExtendMetadata(metadata, extra) == metadata \o AnnotationEntries(extra)

\* the copy branch of from_annotation and from_annotated_attribute: the copy
\* gets no list of its own (its slot in lists stays empty and unreferenced)
NewCopy(H, new_field_info, extra) ==
    [out |-> OK,
     objs |-> Append(H.objs, new_field_info),
     lists |-> [Append(H.lists, <<>>) EXCEPT ![new_field_info.metadata] =
                    ExtendMetadata(@, extra)],
     ret |-> Len(H.objs) + 1,
     warnings |-> <<>>]

\* the annotation kept as written
C7_KeepFinal(annotation) == annotation

\* annotation after `annotation = typing_extensions.get_args(annotation)[0]`
StripFinal(annotation) ==
    IF is_finalvar(annotation) /\ annotation # FinalForm THEN Unwrap(annotation) ELSE annotation

from_annotation(H, annotation0) ==
    LET annotation == StripFinal(annotation0)
        first_arg == FirstArg(annotation)
        extra_args == annotation.ex
        final == is_finalvar(annotation0) \/ (is_annotated(annotation) /\ is_finalvar(first_arg))
        field_info == _find_field_info_arg(extra_args)
    IN IF is_annotated(annotation) /\ GetArgsRaises(annotation)
       THEN Raised(H, ErrGetArgs, <<>>)
       ELSE IF is_annotated(annotation) /\ field_info # 0
       THEN NewCopy(H, [copy(H.objs[field_info]) EXCEPT !.annotation = first_arg,
                                                        !.final = PyBool(final)],
                    NonFieldInfo(extra_args))
       ELSE New(H, FieldInfo_init([NoKwargs EXCEPT !.has_annotation = TRUE,
                                                   !.annotation = annotation,
                                                   !.final = PyBool(final)]))

\* dataclasses.Field objects: default and default_factory may be MISSING
_from_dataclass_field(dc_field) ==
    LET default == IF dc_field.default = MISSING THEN Undefined ELSE dc_field.default
        default_factory == IF dc_field.default_factory = MISSING THEN NoneV
                           ELSE dc_field.default_factory
        field == Field([dc_field.metadata EXCEPT !.default = default,
                                                 !.default_factory = default_factory,
                                                 !.repr = dc_field.repr])
        em == _extract_metadata(dc_field.type)
    IN IF field.out # OK THEN field
       ELSE IF em.out # OK THEN [Raise(em.out) EXCEPT !.warnings = field.warnings]
       ELSE [field EXCEPT !.obj.annotation = em.annotation,
                          !.md = ExtendMetadata(@, em.md)]

\* `default` is [k, v, id, dc]: a plain value v, the FieldInfo id, or the
\* dataclasses.Field dc
from_annotated_attribute(H, annotation0, default) ==
    LET annotation == StripFinal(annotation0)
        final == is_finalvar(annotation0)
    IN IF default.k = "FieldInfo"
       THEN LET em == _extract_metadata(annotation)
                self == H.objs[default.id]
            IN IF em.out # OK THEN Raised(H, em.out, <<>>)
               ELSE [out |-> OK,
                     objs |-> [H.objs EXCEPT ![default.id].annotation = em.annotation,
                                             ![default.id].final = PyBool(final)],
                     lists |-> [H.lists EXCEPT ![self.metadata] = ExtendMetadata(@, em.md)],
                     ret |-> default.id,
                     warnings |-> <<>>]
       ELSE IF default.k = "dataclass"
       THEN LET init_var == annotation = InitVarForm \/ IsInitVarInstance(annotation)
                annotation1 == IF annotation = InitVarForm THEN AnyForm
                               ELSE IF IsInitVarInstance(annotation) THEN Unwrap(annotation)
                               ELSE annotation
                pydantic_field == _from_dataclass_field(default.dc)
                em == _extract_metadata(annotation1)
            IN IF pydantic_field.out # OK
               THEN Raised(H, pydantic_field.out, pydantic_field.warnings)
               ELSE IF em.out # OK THEN Raised(H, em.out, pydantic_field.warnings)
               ELSE New(H, [pydantic_field EXCEPT
                               !.obj.annotation = em.annotation,
                               !.md = ExtendMetadata(@, em.md),
                               !.obj.final = PyBool(final),
                               !.obj.init_var = PyBool(init_var),
                               !.obj.kw_only = default.dc.kw_only])
       ELSE LET first_arg == FirstArg(annotation)
                extra_args == annotation.ex
                field_info == _find_field_info_arg(extra_args)
            IN IF is_annotated(annotation) /\ GetArgsRaises(annotation)
               THEN Raised(H, ErrGetArgs, <<>>)
               ELSE IF is_annotated(annotation) /\ field_info # 0
               THEN IF ~is_required(H.objs[field_info])
                    THEN Raised(H, ErrDefaultTwice, <<>>)
                    ELSE NewCopy(H, [copy(H.objs[field_info]) EXCEPT
                                        !.default = default.v,
                                        !.annotation = first_arg],
                                 NonFieldInfo(extra_args))
               ELSE New(H, FieldInfo_init([NoKwargs EXCEPT !.has_annotation = TRUE,
                                                           !.annotation = annotation,
                                                           !.default = default.v,
                                                           !.final = PyBool(final)]))

(***************************************************************************)
(* FieldInfo.apply_typevars_map.  typevars_map is None or the type that    *)
(* the type variable T stands for.                                         *)
(***************************************************************************)
\* _typing_extra.eval_type_lenient: a forward reference is resolved
eval_type_lenient(t) == IF t = "'int'" THEN "int" ELSE t

\* _generics.replace_types
replace_types(t, typevars_map) == IF typevars_map # NoneV /\ t = "T" THEN typevars_map ELSE t

apply_typevars_map(self, typevars_map) ==
    [self EXCEPT !.annotation.t = replace_types(eval_type_lenient(@), typevars_map)]

(***************************************************************************)
(* computed_field.  f is the decorated function: its __doc__, the return   *)
(* annotation get_type_hints finds ("_UNSET" when none).                   *)
(***************************************************************************)
UNSET == "_UNSET"

\* inspect.cleandoc
cleandoc(doc) == IF doc = "  doc  " THEN "doc" ELSE doc

ComputedAliasPriority(alias, alias_priority) ==
    IF alias # NoneV
    THEN (IF Falsy(alias_priority) THEN "2" ELSE alias_priority)
    ELSE NoneV

\* computed_field that takes the function's own return annotation first
C17_HintFirst(f, alias, alias_priority, title, description, repr, return_type) ==
    LET description1 == IF description = NoneV /\ ~Falsy(f.doc) THEN cleandoc(f.doc)
                        ELSE description
        return_type1 == IF f.hint # UNSET THEN f.hint ELSE return_type
        info == [wrapped_property |-> f.name, return_type |-> return_type1, alias |-> alias,
                 alias_priority |-> ComputedAliasPriority(alias, alias_priority),
                 title |-> title, description |-> description1, repr |-> repr]
    IN IF return_type1 = UNSET THEN [out |-> ErrReturnType, info |-> info]
       ELSE [out |-> OK, info |-> info]

\* [out, info]
computed_field(f, alias, alias_priority, title, description, repr, return_type) ==
    LET description1 == IF description = NoneV /\ ~Falsy(f.doc) THEN cleandoc(f.doc)
                        ELSE description
        return_type1 == IF return_type = UNSET THEN f.hint ELSE return_type
        info == [wrapped_property |-> f.name, return_type |-> return_type1, alias |-> alias,
                 alias_priority |-> ComputedAliasPriority(alias, alias_priority),
                 title |-> title, description |-> description1, repr |-> repr]
    IN IF return_type1 = UNSET THEN [out |-> ErrReturnType, info |-> info]
       ELSE [out |-> OK, info |-> info]

(***************************************************************************)
(* The state machine.  A call that raises aborts the declaration: nothing  *)
(* runs after it.                                                          *)
(***************************************************************************)
Heap == [objs |-> objs, lists |-> lists]

Metadata(i) == lists[objs[i].metadata]

Running == res.out = OK

Bounded(r) ==
    /\ Len(r.objs) <= MaxObjs
    /\ \A i \in DOMAIN r.lists : Len(r.lists[i]) <= MaxMeta

Result(op, args, r, val) ==
    [op |-> op, args |-> args, out |-> r.out, ret |-> r.ret, val |-> val,
     warnings |-> r.warnings]

Commit(op, args, r) ==
    /\ Running
    /\ Bounded(r)
    /\ objs' = r.objs
    /\ lists' = r.lists
    /\ res' = Result(op, args, r, NoneV)

Init ==
    /\ objs = <<>>
    /\ lists = <<>>
    /\ res = [op |-> "", args |-> <<>>, out |-> OK, ret |-> 0, val |-> NoneV,
              warnings |-> <<>>]

\* Field called with the arguments a
CallField(a) == Commit("Field", a, New(Heap, Field(a)))

\* FieldInfo called with kwargs
CallFieldInfo(kwargs) == Commit("FieldInfo", kwargs, New(Heap, FieldInfo_init(kwargs)))

\* FieldInfo.from_field called with default and kwargs
CallFromField(default, kwargs) ==
    Commit("from_field", [kwargs EXCEPT !.default = default],
           New(Heap, from_field(default, kwargs)))

\* FieldInfo.from_annotation(annotation)
CallFromAnnotation(annotation) ==
    Commit("from_annotation", [annotation |-> annotation],
           from_annotation(Heap, annotation))

\* FieldInfo.from_annotated_attribute(annotation, default)
CallFromAnnotatedAttribute(annotation, default) ==
    Commit("from_annotated_attribute", [annotation |-> annotation, default |-> default],
           from_annotated_attribute(Heap, annotation, default))

\* objs[i].apply_typevars_map(typevars_map, types_namespace)
CallApplyTypevarsMap(i, typevars_map) ==
    /\ Running
    /\ objs' = [objs EXCEPT ![i] = apply_typevars_map(@, typevars_map)]
    /\ res' = [op |-> "apply_typevars_map", args |-> [id |-> i, typevars_map |-> typevars_map],
               out |-> OK, ret |-> 0, val |-> NoneV, warnings |-> <<>>]
    /\ UNCHANGED lists

\* objs[i].rebuild_annotation()
CallRebuildAnnotation(i) ==
    /\ Running
    /\ res' = [op |-> "rebuild_annotation", args |-> [id |-> i], out |-> OK, ret |-> 0,
               val |-> rebuild_annotation(objs[i], Tokens(Metadata(i))), warnings |-> <<>>]
    /\ UNCHANGED <<objs, lists>>

\* objs[i].get_default(call_default_factory=c)
CallGetDefault(i, c) ==
    /\ Running
    /\ res' = [op |-> "get_default", args |-> [id |-> i, call_default_factory |-> c],
               out |-> OK, ret |-> 0, val |-> get_default(objs[i], c), warnings |-> <<>>]
    /\ UNCHANGED <<objs, lists>>

\* computed_field applied to f; val is the ComputedFieldInfo of the proxy it returns
CallComputedField(f, alias, alias_priority, title, description, repr, return_type) ==
    LET r == computed_field(f, alias, alias_priority, title, description, repr, return_type)
    IN /\ Running
       /\ res' = [op |-> "computed_field",
                  args |-> [f |-> f, alias |-> alias, alias_priority |-> alias_priority,
                            title |-> title, description |-> description, repr |-> repr,
                            return_type |-> return_type],
                  out |-> r.out, ret |-> 0,
                  val |-> IF r.out = OK THEN r.info ELSE NoneV, warnings |-> <<>>]
       /\ UNCHANGED <<objs, lists>>

(***************************************************************************)
(* Arguments of the calls, drawn from small sets built over the FieldInfo  *)
(* objects that exist.                                                     *)
(***************************************************************************)
PlainDefault(v) == [k |-> "plain", v |-> v, id |-> 0, dc |-> NoneV]
FieldInfoDefault(i) == [k |-> "FieldInfo", v |-> NoneV, id |-> i, dc |-> NoneV]
DataclassDefault(dc) == [k |-> "dataclass", v |-> NoneV, id |-> 0, dc |-> dc]

Lt5 == Token("Lt", << <<"lt", "5">> >>)
Ge0 == Token("Ge", << <<"ge", "0">> >>)

References == {FieldInfoRef(i) : i \in DOMAIN objs}

\* the extra arguments of an Annotated[...] that embeds one FieldInfo, or two
Embeddings ==
    {<<r>> : r \in References}
    \cup {<<FieldInfoRef(p[1]), FieldInfoRef(p[2])>> :
              p \in {q \in (DOMAIN objs) \X (DOMAIN objs) : q[1] < q[2]}}

\* the FieldInfo objects written as the value of an attribute, attr: T = Field(...):
\* those that no attribute has been resolved with yet
Unbound == {i \in DOMAIN objs : objs[i].annotation = NoAnnotation}

\* no annotation has been resolved yet: the FieldInfo objects of a class
\* body are written before its annotations are resolved
Declaring == Unbound = DOMAIN objs

(***************************************************************************)
(* Spec: declarations that state defaults, default factories and embedded  *)
(* FieldInfo objects through every construction path.                      *)
(***************************************************************************)
Annotations ==
    {Plain("int")} \cup {Annotated("int", ex) : ex \in Embeddings}

FieldArguments ==
    {[FieldDefaults EXCEPT !.default = d, !.default_factory = f] :
        d \in {Undefined, "d1"}, f \in {NoneV, "f1"}}

FieldInfoKwargs ==
    {[NoKwargs EXCEPT !.has_annotation = TRUE, !.annotation = a, !.default = d[1],
                      !.default_factory = d[2]] :
        a \in Annotations, d \in {<<Undefined, NoneV>>, <<"d1", "f1">>}}

FromFieldKwargs ==
    {[NoKwargs EXCEPT !.has_annotation = h, !.default_factory = f] :
        h \in BOOLEAN, f \in {NoneV, "f1"}}

DataclassFields ==
    {[default |-> d[1], default_factory |-> d[2], repr |-> TrueV,
      metadata |-> FieldDefaults, type |-> NoAnnotation, kw_only |-> NoneV] :
        d \in {<<MISSING, MISSING>>, <<"d1", MISSING>>, <<MISSING, "f1">>}}

Defaults(annotation) ==
    {PlainDefault(v) : v \in {"d1", "d2"}}
    \cup {FieldInfoDefault(i) : i \in IF Len(annotation.ex) < 2 THEN Unbound ELSE {}}
    \cup {DataclassDefault(dc) : dc \in IF annotation.ex = <<>> THEN DataclassFields ELSE {}}

Next ==
    \/ Declaring /\ \E a \in FieldArguments : CallField(a)
    \/ Declaring /\ \E kwargs \in FieldInfoKwargs : CallFieldInfo(kwargs)
    \/ Declaring /\ \E default \in {Undefined, "d1"}, kwargs \in FromFieldKwargs :
                        CallFromField(default, kwargs)
    \/ \E annotation \in Annotations : CallFromAnnotation(annotation)
    \/ \E annotation \in Annotations :
           \E default \in Defaults(annotation) :
               CallFromAnnotatedAttribute(annotation, default)

Spec == Init /\ [][Next]_vars

(***************************************************************************)
(* SpecMeta: one declaration that states constraints as keywords, then     *)
(* annotations resolved that hold constraints, the declared FieldInfo and  *)
(* the Final marker.                                                       *)
(***************************************************************************)
MetaObjs == 2     \* FieldInfo objects alive at once under SpecMeta

MetaAnnotations ==
    {Plain("int"), FinalForm, FinalOf(Plain("int")), AnnotatedFinal("int", <<Lt5>>),
     Annotated("int", <<Lt5, Ge0>>)}
    \cup {Annotated("int", <<r, Lt5>>) : r \in References}

MetaFieldArguments ==
    {[FieldDefaults EXCEPT !.gt = g, !.pattern = p] : g \in {NoneV, "1"}, p \in {NoneV, "^a"}}

MetaFieldInfoKwargs ==
    {[NoKwargs EXCEPT !.has_annotation = TRUE, !.annotation = a, !.rest = r] :
        a \in {Plain("int"), Annotated("int", <<Lt5, Ge0>>)},
        r \in {<<>>, << <<"pattern", "^a">>, <<"gt", "1">> >>,
                     << <<"lt", "5">>, <<"gt", "1">> >>}}

\* the dataclasses.Field of an attribute annotated `annotation`
MetaDataclassFields(annotation) ==
    {[default |-> MISSING, default_factory |-> MISSING, repr |-> TrueV,
      metadata |-> [FieldDefaults EXCEPT !.gt = "1"], type |-> annotation,
      kw_only |-> NoneV]}

MetaDefaults(annotation) ==
    {PlainDefault("d1")}
    \cup {FieldInfoDefault(i) : i \in Unbound}
    \cup {DataclassDefault(dc) : dc \in MetaDataclassFields(annotation)}

\* FieldInfo.from_annotation(objs[i].rebuild_annotation())
CallRoundTrip(i) ==
    LET annotation == rebuild_annotation(objs[i], Tokens(Metadata(i)))
    IN Commit("round_trip", [id |-> i, annotation |-> annotation],
              from_annotation(Heap, annotation))

\* the declaration that was just resolved, attr: annotation = <FieldInfo>, is
\* resolved again
CallResolveAgain ==
    /\ res.op = "from_annotated_attribute"
    /\ res.args.default.k = "FieldInfo"
    /\ CallFromAnnotatedAttribute(res.args.annotation, res.args.default)

NextMeta ==
    \/ objs = <<>> /\ \E a \in MetaFieldArguments : CallField(a)
    \/ objs = <<>> /\ \E kwargs \in MetaFieldInfoKwargs : CallFieldInfo(kwargs)
    \/ /\ \E annotation \in MetaAnnotations : CallFromAnnotation(annotation)
       /\ Len(objs') <= MetaObjs
    \/ /\ \E annotation \in MetaAnnotations :
              \E default \in MetaDefaults(annotation) :
                  CallFromAnnotatedAttribute(annotation, default)
       /\ Len(objs') <= MetaObjs
    \/ /\ \E i \in DOMAIN objs : CallRoundTrip(i)
       /\ Len(objs') <= MetaObjs
    \/ /\ CallResolveAgain
       /\ Len(objs') <= MetaObjs

SpecMeta == Init /\ [][NextMeta]_vars

(***************************************************************************)
(* SpecBuilder: one field declared with Field() or FieldInfo() and its     *)
(* alias options, then resolved and queried; and computed fields.          *)
(***************************************************************************)
BuilderObjs == 2      \* FieldInfo objects alive at once under SpecBuilder

Aliases == {NoneV, "a", "7"}
AliasPriorities == {NoneV, "0", "1", "2"}
SerializationAliases == {NoneV, "s", ""}
ValidationAliases ==
    {NoneV, "v", "", "0", "[]", "()", "7"} \cup AliasPathValues \cup AliasChoicesValues

BuilderFieldArguments ==
    {[FieldDefaults EXCEPT !.alias = a, !.alias_priority = p, !.serialization_alias = s] :
        a \in Aliases, p \in AliasPriorities, s \in SerializationAliases}
    \cup {[FieldDefaults EXCEPT !.alias = a, !.validation_alias = v] :
            a \in Aliases, v \in ValidationAliases}

BuilderFieldInfoKwargs ==
    {[NoKwargs EXCEPT !.alias = a, !.alias_priority = p] :
        a \in {NoneV, "a"}, p \in AliasPriorities}

BuilderAnnotations ==
    {Plain("T")} \cup {Annotated("T", <<r>>) : r \in References}

BuilderDefaults == {PlainDefault("d1")} \cup {FieldInfoDefault(i) : i \in Unbound}

Functions ==
    {[name |-> "f", doc |-> d, hint |-> h] : d \in {NoneV, "", "  doc  "}, h \in {UNSET, "int"}}

Descriptions == {NoneV, "", "desc"}

NextBuilder ==
    \/ objs = <<>> /\ \E a \in BuilderFieldArguments : CallField(a)
    \/ objs = <<>> /\ \E kwargs \in BuilderFieldInfoKwargs : CallFieldInfo(kwargs)
    \/ /\ \E annotation \in BuilderAnnotations : CallFromAnnotation(annotation)
       /\ Len(objs') <= BuilderObjs
    \/ /\ \E annotation \in BuilderAnnotations, default \in BuilderDefaults :
              CallFromAnnotatedAttribute(annotation, default)
       /\ Len(objs') <= BuilderObjs
    \/ \E i \in DOMAIN objs, typevars_map \in {NoneV, "int"} :
           CallApplyTypevarsMap(i, typevars_map)
    \/ \E i \in DOMAIN objs : CallRebuildAnnotation(i)
    \/ \E i \in DOMAIN objs, c \in BOOLEAN : CallGetDefault(i, c)
    \/ objs = <<>> /\ \E f \in Functions, alias \in {NoneV, "a"},
                         alias_priority \in AliasPriorities, return_type \in {UNSET, "str"},
                         description \in Descriptions :
           CallComputedField(f, alias, alias_priority, NoneV, description, TrueV, return_type)

SpecBuilder == Init /\ [][NextBuilder]_vars

(***************************************************************************)
(* SpecLegacy: single calls of Field() with the V1 keywords and other      *)
(* extra keywords, and of FieldInfo() with constraint keywords.            *)
(***************************************************************************)
\* **extra of a Field() call
LegacyExtras ==
    {<<>>,
     << <<"min_items", "3">> >>,
     << <<"max_items", "4">> >>,
     << <<"min_items", "3">>, <<"max_items", "4">> >>,
     << <<"min_items", NoneV>> >>,
     << <<"allow_mutation", FalseV>> >>,
     << <<"allow_mutation", TrueV>> >>,
     << <<"const", "1">>, <<"min_items", "3">> >>,
     << <<"min_items", "3">>, <<"unique_items", TrueV>> >>,
     << <<"allow_mutation", FalseV>>, <<"regex", "^a">> >>,
     << <<"x", "1">> >>,
     << <<"x", "1">>, <<"y", "2">> >>,
     << <<"min_items", "3">>, <<"x", "1">> >>,
     << <<"x", "1">>, <<"regex", "^a">> >>}

LegacyJsonSchemaExtras == {JNone, JDict(<<>>), JDict(<< <<"k", "v">> >>)}

LegacyFieldArguments ==
    {[FieldDefaults EXCEPT !.extra = e, !.json_schema_extra = j, !.min_length = l[1],
                           !.max_length = l[2], !.frozen = f] :
        e \in LegacyExtras, j \in LegacyJsonSchemaExtras,
        l \in {<<NoneV, NoneV>>, <<"5", NoneV>>, <<"5", "6">>},
        f \in {NoneV, TrueV, FalseV}}

\* the keywords left in kwargs when FieldInfo.__init__ collects the metadata
LegacyValues(key) ==
    IF key = "pattern" THEN {NoneV, "^a"}
    ELSE IF key = "foo" THEN {"1"}
    ELSE {NoneV, "5"}

LegacyKeywords ==
    {<<>>}
    \cup {<< <<"gt", v1>>, <<"pattern", v2>> >> : v1 \in LegacyValues("gt"),
                                                 v2 \in LegacyValues("pattern")}
    \cup {<< <<"pattern", v1>>, <<"lt", v2>>, <<"max_digits", v3>> >> :
              v1 \in LegacyValues("pattern"), v2 \in LegacyValues("lt"),
              v3 \in LegacyValues("max_digits")}
    \cup {<< <<"lt", v1>>, <<"foo", "1">>, <<"gt", v2>> >> :
              v1 \in LegacyValues("lt"), v2 \in LegacyValues("gt")}
    \cup {<< <<"allow_inf_nan", v1>>, <<"min_length", v2>>, <<"decimal_places", v3>> >> :
              v1 \in LegacyValues("allow_inf_nan"), v2 \in LegacyValues("min_length"),
              v3 \in LegacyValues("decimal_places")}

LegacyFieldInfoKwargs ==
    {[NoKwargs EXCEPT !.rest = r] : r \in LegacyKeywords}

NextLegacy ==
    \/ objs = <<>> /\ \E a \in LegacyFieldArguments : CallField(a)
    \/ objs = <<>> /\ \E kwargs \in LegacyFieldInfoKwargs : CallFieldInfo(kwargs)

SpecLegacy == Init /\ [][NextLegacy]_vars

(***************************************************************************)
(* SpecDefault: declarations that state a default (a value, a mutable      *)
(* value, Ellipsis) or a default factory through each construction path,   *)
(* and get_default asked of the resulting FieldInfo objects.               *)
(***************************************************************************)
DefaultObjs == 2      \* FieldInfo objects alive at once under SpecDefault

DefaultFieldArguments ==
    {[FieldDefaults EXCEPT !.default = d, !.default_factory = f] :
        d \in {Undefined, EllipsisV, "d1", "[1]"}, f \in {NoneV, "f1"}}

DefaultFieldInfoKwargs ==
    {[NoKwargs EXCEPT !.default = d] : d \in {Undefined, EllipsisV, "d1"}}

DefaultAnnotations ==
    {Plain("int"), FinalOf(Plain("int"))}
    \cup {Annotated("int", <<r>>) : r \in References}
    \cup {FinalOf(Annotated("int", <<r>>)) : r \in References}

DefaultDataclassFields ==
    {[default |-> d, default_factory |-> MISSING, repr |-> TrueV,
      metadata |-> FieldDefaults, type |-> NoAnnotation, kw_only |-> NoneV] :
        d \in {MISSING, EllipsisV}}

DefaultDefaults(annotation) ==
    {PlainDefault(v) : v \in {EllipsisV, "d1"}}
    \cup {FieldInfoDefault(i) : i \in Unbound}
    \cup {DataclassDefault(dc) : dc \in IF annotation.ex = <<>> THEN DefaultDataclassFields
                                        ELSE {}}

NextDefault ==
    \/ objs = <<>> /\ \E a \in DefaultFieldArguments : CallField(a)
    \/ objs = <<>> /\ \E kwargs \in DefaultFieldInfoKwargs : CallFieldInfo(kwargs)
    \/ /\ \E annotation \in DefaultAnnotations : CallFromAnnotation(annotation)
       /\ Len(objs') <= DefaultObjs
    \/ /\ \E annotation \in DefaultAnnotations :
              \E default \in DefaultDefaults(annotation) :
                  CallFromAnnotatedAttribute(annotation, default)
       /\ Len(objs') <= DefaultObjs
    \/ \E i \in DOMAIN objs, c \in BOOLEAN : CallGetDefault(i, c)

SpecDefault == Init /\ [][NextDefault]_vars

(***************************************************************************)
(* SpecAlias: AliasPath and AliasChoices objects are constructed and       *)
(* converted.  res.val holds the object a constructor returned, then the   *)
(* list convert_to_aliases returned for it.                                *)
(***************************************************************************)
MaxSegments == 3     \* positional arguments of AliasPath
MaxChoices == 2      \* positional arguments of AliasChoices

Segments == {"a", "b", "0"}

\* the sequences over S of length 0..n
RECURSIVE SeqsUpTo(_, _)
SeqsUpTo(S, n) ==
    IF n = 0 THEN {<<>>}
    ELSE SeqsUpTo(S, n - 1) \cup {Append(q, x) : q \in SeqsUpTo(S, n - 1), x \in S}

Choices ==
    {Str("a"), Str("c")}
    \cup {AliasPath_init(given).obj : given \in {<<"b">>, <<"b", "0">>, <<"a", "b", "0">>}}

\* AliasPath called with the positional arguments `given`
CallAliasPath(given) ==
    /\ Running
    /\ res' = [op |-> "AliasPath", args |-> [given |-> given],
               out |-> AliasPath_init(given).out, ret |-> 0,
               val |-> AliasPath_init(given).obj, warnings |-> <<>>]
    /\ UNCHANGED <<objs, lists>>

\* AliasChoices called with the positional arguments `given`
CallAliasChoices(given) ==
    /\ Running
    /\ res' = [op |-> "AliasChoices", args |-> [given |-> given],
               out |-> AliasChoices_init(given).out, ret |-> 0,
               val |-> AliasChoices_init(given).obj, warnings |-> <<>>]
    /\ UNCHANGED <<objs, lists>>

\* convert_to_aliases called on the object that was just constructed
CallConvertToAliases ==
    /\ Running
    /\ res.op \in {"AliasPath", "AliasChoices"}
    /\ res' = [op |-> "convert_to_aliases", args |-> [self |-> res.val], out |-> OK, ret |-> 0,
               val |-> IF res.op = "AliasPath" THEN AliasPath_convert_to_aliases(res.val)
                       ELSE AliasChoices_convert_to_aliases(res.val),
               warnings |-> <<>>]
    /\ UNCHANGED <<objs, lists>>

NextAlias ==
    \/ \E given \in SeqsUpTo(Segments, MaxSegments) : CallAliasPath(given)
    \/ \E given \in SeqsUpTo(Choices, MaxChoices) : CallAliasChoices(given)
    \/ CallConvertToAliases

SpecAlias == Init /\ [][NextAlias]_vars

(***************************************************************************)
(* SpecResolve: every construction and resolution operation, over          *)
(* annotations that embed tokens, one FieldInfo or two, and the Final      *)
(* marker, followed by apply_typevars_map.                                 *)
(***************************************************************************)
ResolveObjs == 3      \* FieldInfo objects alive at once under SpecResolve

\* the extra arguments that embed the first FieldInfo declared, or the first two
ResolveEmbeddings ==
    {<<FieldInfoRef(i)>> : i \in DOMAIN objs \cap {1}}
    \cup {<<FieldInfoRef(1), FieldInfoRef(i)>> : i \in DOMAIN objs \cap {2}}

ResolveAnnotations ==
    {Plain("T"), FinalOf(Annotated("T", <<Lt5>>))}
    \cup {Annotated("T", ex) : ex \in ResolveEmbeddings}

ResolveFieldArguments ==
    {FieldDefaults, [FieldDefaults EXCEPT !.default_factory = "f1", !.gt = "1"]}

ResolveFieldInfoKwargs ==
    {[NoKwargs EXCEPT !.has_annotation = TRUE, !.annotation = a] : a \in ResolveAnnotations}

ResolveFromFieldKwargs ==
    {[NoKwargs EXCEPT !.has_annotation = h] : h \in BOOLEAN}

\* the dataclasses.Field of an attribute annotated `annotation`
ResolveDataclassFields(annotation) ==
    {[default |-> MISSING, default_factory |-> MISSING, repr |-> TrueV,
      metadata |-> FieldDefaults, type |-> annotation, kw_only |-> NoneV]}

ResolveDefaults(annotation) ==
    {PlainDefault("d1")}
    \cup {FieldInfoDefault(i) : i \in IF Len(annotation.ex) < 2 THEN Unbound ELSE {}}
    \cup {DataclassDefault(dc) : dc \in ResolveDataclassFields(annotation)}

NextResolve ==
    \/ /\ Declaring
       /\ \E a \in ResolveFieldArguments : CallField(a)
       /\ Len(objs') < ResolveObjs
    \/ /\ Declaring
       /\ \E kwargs \in ResolveFieldInfoKwargs : CallFieldInfo(kwargs)
       /\ Len(objs') < ResolveObjs
    \/ /\ objs = <<>>
       /\ \E kwargs \in ResolveFromFieldKwargs : CallFromField(Undefined, kwargs)
    \/ /\ \E annotation \in ResolveAnnotations : CallFromAnnotation(annotation)
       /\ Len(objs') <= ResolveObjs
    \/ /\ \E annotation \in ResolveAnnotations :
              \E default \in ResolveDefaults(annotation) :
                  CallFromAnnotatedAttribute(annotation, default)
       /\ Len(objs') <= ResolveObjs
    \/ \E i \in DOMAIN objs \cap {res.ret} : CallApplyTypevarsMap(i, "int")

SpecResolve == Init /\ [][NextResolve]_vars

(***************************************************************************)
(* What the last call was given.                                           *)
(***************************************************************************)
\* the FieldInfo objects embedded in an annotation, in order
EmbeddedIn(annotation) ==
    SelectSeq(annotation.ex, LAMBDA a : a.k = "FieldInfo")

\* the last call resolved an annotation with a plain default value
PlainResolution ==
    res.op = "from_annotated_attribute" /\ res.args.default.k = "plain"

(***************************************************************************)
(* C1  default and default_factory exclude each other on every path.       *)
(***************************************************************************)
\* the last call was given both a default that is not Undefined and a
\* default_factory that is not None, for one field
C1_BothSupplied ==
    \/ /\ res.op \in {"Field", "FieldInfo", "from_field"}
       /\ res.args.default \notin {Undefined, EllipsisV}
       /\ res.args.default_factory # NoneV
       /\ res.op = "FieldInfo" => EmbeddedIn(res.args.annotation) = <<>>
       /\ res.op = "from_field" => ~res.args.has_annotation
    \/ /\ PlainResolution
       /\ res.args.default.v \notin {Undefined, EllipsisV}
       /\ \E k \in DOMAIN res.args.annotation.ex :
              /\ res.args.annotation.ex[k].k = "FieldInfo"
              /\ objs[res.args.annotation.ex[k].id].default_factory # NoneV
    \/ /\ res.op = "from_annotated_attribute"
       /\ res.args.default.k = "dataclass"
       /\ res.args.default.dc.default # MISSING
       /\ res.args.default.dc.default_factory # MISSING

\* C1: on every construction path, a call that is given both a concrete
\* default and a default_factory for the same field fails with the error
\* 'cannot specify both default and default_factory' and returns no
\* descriptor.
C1_MutualExclusion ==
    C1_BothSupplied => res.out = ErrBoth /\ res.ret = 0

(***************************************************************************)
(* C2  at most one FieldInfo in an annotation.                             *)
(***************************************************************************)
\* the last call resolved an annotation that embeds two FieldInfo or more
C2_TwoEmbedded ==
    /\ \/ res.op \in {"from_annotation", "FieldInfo"}
       \/ PlainResolution
    /\ Len(EmbeddedIn(res.args.annotation)) >= 2

\* C2: resolving an annotation that embeds two or more FieldInfo fails with
\* 'Field may not be used twice on the same field' on from_annotation, on
\* from_annotated_attribute with a plain default and on FieldInfo(annotation=...),
\* and returns no descriptor.
C2_FieldTwice ==
    C2_TwoEmbedded => res.out = ErrFieldTwice /\ res.ret = 0

(***************************************************************************)
(* C3  a plain default for an annotation that embeds a FieldInfo.          *)
(***************************************************************************)
\* the last call gave a plain default for an annotation that embeds a FieldInfo
C3_Case == PlainResolution /\ EmbeddedIn(res.args.annotation) # <<>>

\* the FieldInfo the resolution finds: the first one embedded
C3_Embedded == objs[Head(EmbeddedIn(res.args.annotation)).id]

\* no default and no default factory
C3_Required(d) == d.default = Undefined /\ d.default_factory = NoneV

\* C3 as the code has it: from_annotated_attribute with a plain default, on
\* an annotation that embeds a FieldInfo, succeeds whenever the embedded
\* FieldInfo is required: it returns a new descriptor, a copy, that carries
\* the default and is no longer required, and the embedded FieldInfo stays
\* required, so that every later default given the same way succeeds too.
\* It fails with 'Default may not be specified twice on the same field' and
\* returns nothing whenever the embedded FieldInfo is not required.
C3_DefaultOnCopy ==
    C3_Case =>
        IF C3_Required(C3_Embedded)
        THEN /\ res.out = OK
             /\ res.ret = Len(objs)
             /\ res.ret # Head(EmbeddedIn(res.args.annotation)).id
             /\ objs[res.ret].default = res.args.default.v
             /\ ~C3_Required(objs[res.ret])
        ELSE /\ res.out = ErrDefaultTwice
             /\ res.ret = 0

\* two defaults have been given, one after the other, for the same
\* annotation embedding a required FieldInfo, and both calls succeeded
C3_SecondDefaultAccepted ==
    /\ C3_Case
    /\ res.out = OK
    /\ \E i \in 1..(res.ret - 1) :
           /\ i # Head(EmbeddedIn(res.args.annotation)).id
           /\ objs[i].default \in {"d1", "d2"}
           /\ objs[i].default # res.args.default.v
           /\ objs[i].metadata = C3_Embedded.metadata

\* C3 as the claim states it: once a default has been supplied through
\* from_annotated_attribute for an annotation that embeds a required
\* FieldInfo, supplying a default the same way again fails with 'Default may
\* not be specified twice on the same field'.
C3_SecondDefaultFails ==
    [][(/\ C3_Case
        /\ res.out = OK
        /\ res'.op = "from_annotated_attribute"
        /\ res'.args.default.k = "plain"
        /\ res'.args.annotation = res.args.annotation)
       => res'.out = ErrDefaultTwice]_vars

(***************************************************************************)
(* C4  the FieldInfo embedded in an annotation is left as it was.          *)
(***************************************************************************)
\* C4: from_annotation, and from_annotated_attribute with a plain default,
\* work on a copy of the FieldInfo embedded in the annotation: the call
\* leaves the embedded FieldInfo's annotation, default, final flag and
\* metadata list exactly as they were.
C4_EmbeddedUntouched ==
    [][(/\ \/ res'.op = "from_annotation"
           \/ res'.op = "from_annotated_attribute" /\ res'.args.default.k = "plain"
        /\ EmbeddedIn(res'.args.annotation) # <<>>)
       => LET e == Head(EmbeddedIn(res'.args.annotation)).id
          IN /\ objs'[e].annotation = objs[e].annotation
             /\ objs'[e].default = objs[e].default
             /\ objs'[e].final = objs[e].final
             /\ objs'[e].metadata = objs[e].metadata
             /\ lists'[objs[e].metadata] = lists[objs[e].metadata]]_vars

(***************************************************************************)
(* C5  keyword tokens come before annotation tokens.                       *)
(***************************************************************************)
C5_KeywordPart(metadata) == SelectSeq(metadata, LAMBDA e : e.kw)
C5_AnnotationPart(metadata) == SelectSeq(metadata, LAMBDA e : ~e.kw)

\* the tokens of constraint keywords given in this order: one for each
\* keyword of the table that has a marker, then one for all the others
C5_KeywordTokens(kwargs) ==
    LET dedicated == SelectSeq(kwargs, LAMBDA kv : kv[1] \in DedicatedKeys /\ kv[2] # NoneV)
        general == SelectSeq(kwargs, LAMBDA kv : kv[1] \in BucketKeys /\ kv[2] # NoneV)
    IN [i \in DOMAIN dedicated |-> Token(metadata_lookup(dedicated[i][1]), <<dedicated[i]>>)]
       \o (IF general # <<>> THEN <<Token("PydanticGeneralMetadata", general)>> ELSE <<>>)

\* the constraint keywords of the last call in the order FieldInfo.__init__
\* receives them: as written for FieldInfo(...), as Field forwards them for
\* Field(...)
C5_Supplied ==
    IF res.op = "FieldInfo" THEN res.args.rest
    ELSE FieldConstraints(res.args, res.args.min_length, res.args.max_length)

\* the tokens written in the annotation of the last call, in order
C5_Written ==
    IF res.op = "Field" THEN <<>>
    ELSE SelectSeq(res.args.annotation.ex, LAMBDA a : a.k # "FieldInfo")

\* s ends with t
C5_EndsWith(s, t) ==
    /\ Len(s) >= Len(t)
    /\ SubSeq(s, Len(s) - Len(t) + 1, Len(s)) = t

C6_RoundTrip ==
    (res.op = "round_trip" /\ Metadata(res.args.id) # <<>>) =>
        /\ res.out = OK
        /\ objs[res.ret].annotation = objs[res.args.id].annotation
        /\ Tokens(Metadata(res.ret)) = Tokens(Metadata(res.args.id))

(***************************************************************************)
(* C7  an annotation without embedded metadata.                            *)
(***************************************************************************)
\* the last call was from_annotation(A) with A no Annotated form
C7_Case == res.op = "from_annotation" /\ ~res.args.annotation.anno

\* A without its Final[...] wrapper; the bare Final has none
C7_Unwrapped(A) == IF A.w = "Final" THEN [A EXCEPT !.w = ""] ELSE A

\* C7 as the code has it: for every annotation A that carries no embedded
\* metadata, from_annotation(A) returns a new descriptor that is required
\* and has an empty metadata list, and whose rebuild_annotation() returns A
\* with its Final[...] wrapper taken off: A itself when A is not Final[X].
\* The wrapper is recorded in the final flag.
C7_BareAnnotation ==
    C7_Case =>
        /\ res.out = OK
        /\ res.ret = Len(objs)
        /\ is_required(objs[res.ret])
        /\ Metadata(res.ret) = <<>>
        /\ rebuild_annotation(objs[res.ret], Tokens(Metadata(res.ret)))
               = C7_Unwrapped(res.args.annotation)
        /\ objs[res.ret].final = PyBool(res.args.annotation.w = "Final"
                                        \/ res.args.annotation = FinalForm)

\* from_annotation(Final[int]) has returned
C7_FinalResolved ==
    /\ C7_Case
    /\ res.args.annotation.w = "Final"
    /\ res.out = OK

\* C7 as the claim states it: for every annotation A that carries no
\* embedded metadata, from_annotation(A) returns a descriptor that is
\* required and has an empty metadata list, and whose rebuild_annotation()
\* returns A unchanged.
C7_RebuildReturnsA ==
    C7_Case =>
        /\ res.out = OK
        /\ is_required(objs[res.ret])
        /\ Metadata(res.ret) = <<>>
        /\ rebuild_annotation(objs[res.ret], Tokens(Metadata(res.ret))) = res.args.annotation

(***************************************************************************)
(* C8  serialization_alias is filled in by Field, once.                    *)
(***************************************************************************)
\* s when given, else a when a is a plain string, else None
C8_Expected(a) ==
    IF a.serialization_alias # NoneV THEN a.serialization_alias
    ELSE IF a.alias \in StrValues THEN a.alias
    ELSE NoneV

\* C8: the descriptor Field(alias=a, serialization_alias=s) returns has
\* serialization_alias s when s is given, a when s is not given and a is a
\* plain string, None otherwise; and no call (from_annotation,
\* from_annotated_attribute, apply_typevars_map, get_default,
\* rebuild_annotation) changes the serialization_alias of a descriptor.
C8_SerializationAlias ==
    [][/\ (res'.op = "Field" /\ res'.out = OK) =>
              objs'[res'.ret].serialization_alias = C8_Expected(res'.args)
       /\ \A i \in DOMAIN objs :
              objs'[i].serialization_alias = objs[i].serialization_alias]_vars

\* a descriptor whose serialization_alias Field took from alias has since
\* been resolved with an annotation and had its type variables replaced
C8_BackfilledAndUsed ==
    /\ res.op = "apply_typevars_map"
    /\ objs[res.args.id].alias = "a"
    /\ objs[res.args.id].serialization_alias = "a"
    /\ objs[res.args.id].annotation.t = "int"

(***************************************************************************)
(* C9  alias_priority of a field with an alias.                            *)
(***************************************************************************)
\* the alias_priority the caller gave, 2 when the caller gave none
C9_Expected(args) == IF args.alias_priority = NoneV THEN "2" ELSE args.alias_priority

\* C9: a field or computed field declared with an alias that is not None
\* has the alias_priority its caller supplied, 0 included, and 2 only when
\* the caller supplied none.
C9_AliasPriority ==
    /\ (res.op \in {"Field", "FieldInfo"} /\ res.out = OK /\ res.args.alias # NoneV) =>
           objs[res.ret].alias_priority = C9_Expected(res.args)
    /\ (res.op = "computed_field" /\ res.out = OK /\ res.args.alias # NoneV) =>
           res.val.alias_priority = C9_Expected(res.args)

(***************************************************************************)
(* C10  the type of validation_alias.                                      *)
(***************************************************************************)
\* a plain string, an AliasPath or an AliasChoices
C10_Permitted(v) == v \in StrValues \cup AliasPathValues \cup AliasChoicesValues

\* C10: Field(validation_alias=v) fails with the TypeError on validation_alias
\* and returns no descriptor for every v that is not None and not of a
\* permitted type, the falsy ones (0, [], ()) included; for a permitted v
\* that is not empty the descriptor's validation_alias is v, and when v is
\* not given it is the alias.
C10_ValidationAlias ==
    res.op = "Field" =>
        LET v == res.args.validation_alias
        IN IF v # NoneV /\ ~C10_Permitted(v)
           THEN res.out = ErrValidationAlias /\ res.ret = 0
           ELSE IF v = NoneV
           THEN res.out = OK /\ objs[res.ret].validation_alias = res.args.alias
           ELSE v # "" => (res.out = OK /\ objs[res.ret].validation_alias = v)

(***************************************************************************)
(* C11.  Field() with residual extra keywords succeeds with the            *)
(* deprecation warning, and the residual keywords become json_schema_extra *)
(* exactly when json_schema_extra was not given (None); a given            *)
(* json_schema_extra, the empty mapping included, is kept as given.        *)
(***************************************************************************)
C11_Case ==
    /\ res.op = "Field"
    /\ res.out = OK
    /\ FieldResidual(res.args.extra) # <<>>

C11_Expected(a) ==
    IF a.json_schema_extra.none THEN JDict(FieldResidual(a.extra)) ELSE a.json_schema_extra

C11_ResidualFolded ==
    C11_Case =>
        /\ \E i \in DOMAIN res.warnings : res.warnings[i] = WarnExtra
        /\ objs[res.ret].json_schema_extra = C11_Expected(res.args)

(***************************************************************************)
(* C12.  _collect_metadata: each table keyword with a constructor and a    *)
(* non-null value gives one token constructor(value), in keyword order;    *)
(* the non-null bucket keywords give together one PydanticGeneralMetadata  *)
(* token, the last one, and none when there is no such keyword; a null     *)
(* value gives no token; keywords not in the table stay in kwargs.         *)
(***************************************************************************)
C12_Case ==
    /\ res.op = "FieldInfo"
    /\ res.out = OK
    /\ res.args.annotation = NoAnnotation

C12_Dedicated(kwargs) ==
    SelectSeq(kwargs, LAMBDA kv : kv[1] \in DedicatedKeys /\ kv[2] # NoneV)

C12_Bucket(kwargs) ==
    SelectSeq(kwargs, LAMBDA kv : kv[1] \in BucketKeys /\ kv[2] # NoneV)

C12_NotInTable(kwargs) ==
    SelectSeq(kwargs, LAMBDA kv : kv[1] \notin DedicatedKeys \cup BucketKeys)

C12_Routing ==
    C12_Case =>
        LET kwargs == res.args.rest
            md == Tokens(Metadata(res.ret))
            dedicated == C12_Dedicated(kwargs)
            bucket == C12_Bucket(kwargs)
        IN /\ Len(md) = Len(dedicated) + (IF bucket # <<>> THEN 1 ELSE 0)
           /\ \A i \in DOMAIN dedicated :
                  md[i] = Token(metadata_lookup(dedicated[i][1]), <<dedicated[i]>>)
           /\ bucket # <<>> => md[Len(md)] = PydanticGeneralMetadata(bucket)
           /\ \A i \in DOMAIN md : Metadata(res.ret)[i].kw
           /\ _collect_metadata(kwargs).rest = C12_NotInTable(kwargs)

\* gt=5, pattern='^a' gave exactly two tokens: Gt(5), then the shared one
C12_GtAndPattern ==
    /\ C12_Case
    /\ res.args.rest = << <<"gt", "5">>, <<"pattern", "^a">> >>
    /\ Tokens(Metadata(res.ret)) =
           << Token("Gt", << <<"gt", "5">> >>),
              PydanticGeneralMetadata(<< <<"pattern", "^a">> >>) >>

(***************************************************************************)
(* C13.  Field() with min_items (max_items) warns, and the metadata holds  *)
(* min_length (max_length) with the legacy value when the new option is    *)
(* absent and with the new option's value when both are given; with        *)
(* allow_mutation it warns and makes frozen true exactly when              *)
(* allow_mutation is False (otherwise frozen is as the caller gave it).    *)
(* In all these cases the call returns a descriptor.                       *)
(***************************************************************************)
C13_Case ==
    /\ res.op = "Field"
    /\ FieldRemoved(res.args.extra) = OK
    /\ \E key \in {"min_items", "max_items", "allow_mutation"} :
           DictGet(res.args.extra, key) # NoneV

C13_Warned(w) == \E i \in DOMAIN res.warnings : res.warnings[i] = w

\* the values of the tokens `marker` in the metadata of the returned descriptor
C13_Values(marker) ==
    LET md == SelectSeq(Tokens(Metadata(res.ret)), LAMBDA tok : tok.k = marker)
    IN [i \in DOMAIN md |-> md[i].kv[1][2]]

C13_Length(legacy, new, warning, marker) ==
    legacy # NoneV =>
        /\ C13_Warned(warning)
        /\ C13_Values(marker) = <<IF new = NoneV THEN legacy ELSE new>>

C13_Translation ==
    C13_Case =>
        LET a == res.args
            allow_mutation == DictGet(a.extra, "allow_mutation")
        IN /\ res.out = OK
           /\ res.ret \in DOMAIN objs
           /\ C13_Length(DictGet(a.extra, "min_items"), a.min_length, WarnMinItems, "MinLen")
           /\ C13_Length(DictGet(a.extra, "max_items"), a.max_length, WarnMaxItems, "MaxLen")
           /\ allow_mutation # NoneV =>
                  /\ C13_Warned(WarnAllowMutation)
                  /\ allow_mutation = FalseV => objs[res.ret].frozen = TrueV
                  /\ allow_mutation # FalseV => objs[res.ret].frozen = a.frozen

\* min_items=3 with min_length=5 gave MinLen(5), and max_items=4 alone MaxLen(4)
C13_NewOptionWins ==
    /\ C13_Case
    /\ res.out = OK
    /\ DictGet(res.args.extra, "min_items") = "3"
    /\ DictGet(res.args.extra, "max_items") = "4"
    /\ res.args.min_length = "5"
    /\ res.args.max_length = NoneV
    /\ C13_Values("MinLen") = <<"5">>
    /\ C13_Values("MaxLen") = <<"4">>
    /\ C13_Warned(WarnMinItems)

(***************************************************************************)
(* C14.  get_default: with no factory it returns a copy of the stored      *)
(* default (an equal value, a new object when the default is mutable, and  *)
(* the Undefined sentinel itself when the field is required); with a       *)
(* factory and call_default_factory it invokes the factory exactly once    *)
(* and returns its result; with a factory and without call_default_factory *)
(* it does not invoke the factory and returns None.  The FieldInfo and     *)
(* its metadata list are left as they were.                                *)
(***************************************************************************)
C14_Step(self, c, r) ==
    /\ self.default_factory = NoneV =>
           /\ r.val = self.default
           /\ r.calls = 0
           /\ Mutable(self.default) => r.new
           /\ self.default = Undefined => ~r.new
    /\ self.default_factory # NoneV /\ c =>
           /\ r.val = Call(self.default_factory)
           /\ r.calls = 1
    /\ self.default_factory # NoneV /\ ~c =>
           /\ r.val = NoneV
           /\ r.calls = 0

C14_GetDefault ==
    [][res'.op = "get_default" =>
           /\ C14_Step(objs[res'.args.id], res'.args.call_default_factory, res'.val)
           /\ objs' = objs
           /\ lists' = lists]_vars

\* get_default was asked, without call_default_factory, of a FieldInfo with a factory
C14_FactoryNotCalled ==
    /\ res.op = "get_default"
    /\ objs[res.args.id].default_factory = "f1"
    /\ ~res.args.call_default_factory
    /\ res.val = [val |-> NoneV, new |-> FALSE, calls |-> 0]

(***************************************************************************)
(* C15.  Whenever the annotation resolved is wrapped in Final, the         *)
(* FieldInfo returned has final = True, in every branch of from_annotation *)
(* and of from_annotated_attribute.                                        *)
(***************************************************************************)
C15_Case ==
    /\ res.op \in {"from_annotation", "from_annotated_attribute"}
    /\ res.out = OK
    /\ is_finalvar(res.args.annotation)

C15_FinalPropagated == C15_Case => objs[res.ret].final = TrueV

(***************************************************************************)
(* C16.  AliasPath and AliasChoices hold their positional arguments in the *)
(* order given, at least one; AliasPath.convert_to_aliases returns the     *)
(* segments as they are; AliasChoices.convert_to_aliases returns one entry *)
(* per choice, in order: [c] for a name c, the segment list for an         *)
(* AliasPath.                                                              *)
(***************************************************************************)
C16_Constructed ==
    res.op \in {"AliasPath", "AliasChoices"} /\ res.out = OK =>
        LET held == IF res.op = "AliasPath" THEN res.val.path ELSE res.val.choices
        IN /\ held = res.args.given
           /\ Len(held) >= 1

C16_Entry(c) == IF c.cls = "str" THEN <<c.v>> ELSE c.path

C16_Converted ==
    res.op = "convert_to_aliases" =>
        LET self == res.args.self
        IN IF self.cls = "AliasPath"
           THEN res.val = self.path
           ELSE /\ Len(res.val) = Len(self.choices)
                /\ \A i \in DOMAIN self.choices : res.val[i] = C16_Entry(self.choices[i])

C16_ConvertToAliases == C16_Constructed /\ C16_Converted

\* AliasChoices('a', AliasPath('b', 0)) was converted to [['a'], ['b', 0]]
C16_Example ==
    /\ res.op = "convert_to_aliases"
    /\ res.args.self.cls = "AliasChoices"
    /\ res.args.self.choices = <<Str("a"), AliasPath_init(<<"b", "0">>).obj>>
    /\ res.val = << <<"a">>, <<"b", "0">> >>

(***************************************************************************)
(* C17.  computed_field: the ComputedFieldInfo's return_type is the        *)
(* return_type given, else the function's own return annotation; with      *)
(* neither the call raises PydanticUserError and returns nothing.  Its     *)
(* description is the description given, else the function's cleaned       *)
(* docstring (None when the function has no docstring text).               *)
(***************************************************************************)
C17_ReturnType(a) == IF a.return_type # UNSET THEN a.return_type ELSE a.f.hint

C17_Description(a) ==
    IF a.description # NoneV THEN a.description
    ELSE IF a.f.doc \in {NoneV, ""} THEN NoneV
    ELSE IF a.f.doc = "  doc  " THEN "doc"
    ELSE a.f.doc

C17_Registration ==
    res.op = "computed_field" =>
        IF C17_ReturnType(res.args) = UNSET
        THEN res.out = ErrReturnType /\ res.val = NoneV
        ELSE /\ res.out = OK
             /\ res.val.return_type = C17_ReturnType(res.args)
             /\ res.val.description = C17_Description(res.args)

\* the return type and the description both came from the function
C17_FromTheFunction ==
    /\ res.op = "computed_field"
    /\ res.out = OK
    /\ res.args.return_type = UNSET
    /\ res.args.description = NoneV
    /\ res.args.f.doc = "  doc  "
    /\ res.val.return_type = "int"
    /\ res.val.description = "doc"

(***************************************************************************)
(* C18.  An Ellipsis default means no default on every construction path:  *)
(* after FieldInfo(default=...), Field(...) and                            *)
(* from_annotated_attribute(annotation, ...) in each of its branches, the  *)
(* FieldInfo returned has default Undefined and is_required() is true.     *)
(***************************************************************************)
C18_Case ==
    /\ res.out = OK
    /\ \/ /\ res.op \in {"Field", "FieldInfo"}
          /\ res.args.default = EllipsisV
          /\ res.args.default_factory = NoneV
       \/ /\ res.op = "from_annotated_attribute"
          /\ \/ res.args.default.k = "plain" /\ res.args.default.v = EllipsisV
             \/ /\ res.args.default.k = "dataclass"
                /\ res.args.default.dc.default = EllipsisV
                /\ res.args.default.dc.default_factory = MISSING

C18_EllipsisIsNoDefault ==
    C18_Case =>
        /\ objs[res.ret].default = Undefined
        /\ is_required(objs[res.ret])

(***************************************************************************)
(* C19.  from_annotated_attribute with a dataclasses.Field default: each   *)
(* token embedded in the annotation is in the metadata of the FieldInfo    *)
(* returned exactly once, after the tokens made from the dataclass field's *)
(* own options, also when the dataclass field's type is the annotation.    *)
(***************************************************************************)
C19_Case ==
    /\ res.op = "from_annotated_attribute"
    /\ res.out = OK
    /\ res.args.default.k = "dataclass"

C19_FromAnnotation(metadata) == SelectSeq(metadata, LAMBDA e : ~e.kw)
C19_FromOptions(metadata) == SelectSeq(metadata, LAMBDA e : e.kw)

C19_EmbeddedOnce ==
    C19_Case =>
        LET metadata == Metadata(res.ret)
        IN /\ Tokens(C19_FromAnnotation(metadata)) = StripFinal(res.args.annotation).ex
           /\ metadata = C19_FromOptions(metadata) \o C19_FromAnnotation(metadata)

(***************************************************************************)
(* C20.  from_annotated_attribute(A, d) with a FieldInfo d, called again   *)
(* with the same A and d, returns the same instance d with the annotation  *)
(* it had after the first call; the tokens embedded in A are appended to   *)
(* d's metadata list once more, so the list is the same only when A        *)
(* embeds no token.                                                        *)
(***************************************************************************)
\* this step is a second from_annotated_attribute(A, d), d a FieldInfo
C20_SecondCall ==
    /\ res.op = "from_annotated_attribute"
    /\ res.out = OK
    /\ res.args.default.k = "FieldInfo"
    /\ res'.op = "from_annotated_attribute"
    /\ res'.args = res.args
    /\ res'.out = OK

C20_Embedded(A) == StripFinal(A).ex

C20_TokensAppendedAgain ==
    [][C20_SecondCall =>
           /\ res'.ret = res.ret
           /\ objs' = objs
           /\ lists' = [lists EXCEPT ![objs[res.ret].metadata] =
                            @ \o AnnotationEntries(C20_Embedded(res.args.annotation))]]_vars

\* d was resolved twice with an annotation that embeds tokens: they are there twice
C20_ResolvedTwice ==
    /\ res.op = "from_annotated_attribute"
    /\ res.out = OK
    /\ res.args.default.k = "FieldInfo"
    /\ C20_Embedded(res.args.annotation) # <<>>
    /\ Tokens(SelectSeq(Metadata(res.ret), LAMBDA e : ~e.kw)) =
           C20_Embedded(res.args.annotation) \o C20_Embedded(res.args.annotation)

\* the statement as first made: the second call changes nothing
C20_Idempotent ==
    [][C20_SecondCall =>
           /\ res'.ret = res.ret
           /\ objs' = objs
           /\ lists' = lists]_vars

(***************************************************************************)
(* C21.  After any sequence of construction and resolution operations no   *)
(* FieldInfo's metadata list holds a FieldInfo, and no FieldInfo's         *)
(* annotation is an Annotated form with its extra arguments unextracted:   *)
(* every FieldInfo embedded in a resolved annotation was either merged     *)
(* into the FieldInfo returned, or the call raised.                        *)
(***************************************************************************)
C21_NoFieldInfoInMetadata ==
    \A i \in DOMAIN objs :
        \A j \in DOMAIN Metadata(i) : ~IsFieldInfo(Metadata(i)[j].tok)

C21_AnnotationsExtracted ==
    \A i \in DOMAIN objs : ~is_annotated(objs[i].annotation)

\* the last call resolved an annotation that embeds FieldInfo objects
C21_Case ==
    /\ res.op \in {"FieldInfo", "from_annotation", "from_annotated_attribute"}
    /\ EmbeddedIn(StripFinal(res.args.annotation)) # <<>>

\* what the embedded FieldInfo e states is in the FieldInfo r: its default
\* factory, and the tokens of its constraint keywords
C21_Merged(e, r) ==
    /\ objs[e].default_factory # NoneV => objs[r].default_factory = objs[e].default_factory
    /\ \A j \in DOMAIN Metadata(e) :
           Metadata(e)[j].kw => \E k \in DOMAIN Metadata(r) : Metadata(r)[k] = Metadata(e)[j]

C21_MergedOrRejected ==
    C21_Case =>
        \/ res.out # OK
        \/ LET embedded == EmbeddedIn(StripFinal(res.args.annotation))
           IN \A n \in DOMAIN embedded : C21_Merged(embedded[n].id, res.ret)

C21_Resolved ==
    /\ C21_NoFieldInfoInMetadata
    /\ C21_AnnotationsExtracted
    /\ C21_MergedOrRejected

====
